---- MODULE Spec2Model ----
(***************************************************************************)
(* Model of nuccalc.cpp (Nuclear Weapons Effects Calculator).              *)
(*                                                                         *)
(* Number representation.  The program computes in IEEE doubles; the model *)
(* computes in decimal fixed point:                                        *)
(*   - dimensionless quantities, yields (MT), wind speeds (km/h) and       *)
(*     fallout distances (km) are integers in units of 1/FP;               *)
(*   - radii and heights are whole metres (rounded down);                  *)
(*   - an effect area is kept as its coefficient of pi in m^2, so that     *)
(*     calculateArea(r) = M_PI * pow(r / 1000.0, 2) is the integer r * r   *)
(*     and sqrt(area / M_PI) in km is ISqrt(area) in metres;               *)
(*   - NaN, PosInf and NegInf are the non-finite doubles.                  *)
(***************************************************************************)
EXTENDS Integers, Sequences, FiniteSets, TLC

FP == 10000

\* ---------------------------------------------------------------- doubles
NaN == 2000000001
PosInf == 2000000002
NegInf == 2000000003

IsNaN(x) == x = NaN
IsInf(x) == x = PosInf \/ x = NegInf
IsFinite(x) == ~IsNaN(x) /\ ~IsInf(x)

\* Sign of a double that is not NaN.
Sgn(x) == IF x = PosInf THEN 1
          ELSE IF x = NegInf THEN -1
          ELSE IF x > 0 THEN 1 ELSE IF x < 0 THEN -1 ELSE 0

SignedInf(s) == IF s > 0 THEN PosInf ELSE NegInf

Abs(x) == IF x < 0 THEN -x ELSE x

\* <<q, r>> with a * b = q * c + r and 0 <= r < c, for a >= 0, b >= 0 and
\* 0 < c < 2^30, by doubling on b so that a * b itself is never formed.
RECURSIVE MulDivQR(_, _, _)
MulDivQR(a, b, c) ==
    IF b = 0 THEN <<0, 0>>
    ELSE LET h  == MulDivQR(a, b \div 2, c)
             q2 == 2 * h[1] + (2 * h[2]) \div c
             r2 == (2 * h[2]) % c
             s  == r2 + (a % c)
         IN  IF b % 2 = 0 THEN <<q2, r2>>
             ELSE <<q2 + (a \div c) + (s \div c), s % c>>

\* a * b / c rounded towards zero, for b >= 0 and c > 0.
MulDiv(a, b, c) ==
    IF a >= 0 THEN MulDivQR(a, b, c)[1] ELSE -(MulDivQR(-a, b, c)[1])

\* a < b on doubles: false when either side is NaN.
FLess(a, b) ==
    IF IsNaN(a) \/ IsNaN(b) THEN FALSE
    ELSE IF a = b THEN FALSE
    ELSE IF a = NegInf \/ b = PosInf THEN TRUE
    ELSE IF a = PosInf \/ b = NegInf THEN FALSE
    ELSE a < b

FLeq(a, b) ==
    IF IsNaN(a) \/ IsNaN(b) THEN FALSE
    ELSE a = b \/ FLess(a, b)

FGreater(a, b) == FLess(b, a)

\* operator== on double: NaN equals nothing, itself included.
FEq(a, b) == ~IsNaN(a) /\ ~IsNaN(b) /\ a = b

\* std::max(a, b) is (a < b) ? b : a.
FMax(a, b) == IF FLess(a, b) THEN b ELSE a

FNeg(x) == IF IsNaN(x) THEN NaN
           ELSE IF x = PosInf THEN NegInf
           ELSE IF x = NegInf THEN PosInf
           ELSE -x

FAdd(x, y) ==
    IF IsNaN(x) \/ IsNaN(y) THEN NaN
    ELSE IF IsInf(x) /\ IsInf(y) THEN (IF x = y THEN x ELSE NaN)
    ELSE IF IsInf(x) THEN x
    ELSE IF IsInf(y) THEN y
    ELSE x + y

FSub(x, y) == FAdd(x, FNeg(y))

\* x * y / d, d the unit of y.
FMulBy(x, y, d) ==
    IF IsNaN(x) \/ IsNaN(y) THEN NaN
    ELSE IF IsInf(x) \/ IsInf(y)
         THEN (IF Sgn(x) = 0 \/ Sgn(y) = 0 THEN NaN ELSE SignedInf(Sgn(x) * Sgn(y)))
    ELSE IF y >= 0 THEN MulDiv(x, y, d) ELSE -MulDiv(x, -y, d)

\* Product of two fixed-point values.
FMul(x, y) == FMulBy(x, y, FP)

\* x / y on doubles; the result is in units of 1/u when x and y share a unit.
FDivTo(x, y, u) ==
    IF IsNaN(x) \/ IsNaN(y) THEN NaN
    ELSE IF IsInf(x) THEN (IF IsInf(y) THEN NaN
                           ELSE SignedInf(Sgn(x) * (IF Sgn(y) < 0 THEN -1 ELSE 1)))
    ELSE IF IsInf(y) THEN 0
    ELSE IF y = 0 THEN (IF x = 0 THEN NaN ELSE SignedInf(Sgn(x)))
    ELSE IF y > 0 THEN MulDiv(x, u, y) ELSE -MulDiv(x, u, -y)

FDiv(x, y) == FDivTo(x, y, FP)

\* ------------------------------------------------------------------ <cmath>
LN2 == 6931
LN10 == 23026
PI == 31416

\* Largest n with n * n <= x, for x >= 0 (bisection on [lo, hi)).
RECURSIVE ISqrtIn(_, _, _)
ISqrtIn(x, lo, hi) ==
    IF hi - lo <= 1 THEN lo
    ELSE LET mid == (lo + hi) \div 2
         IN  IF mid * mid <= x THEN ISqrtIn(x, mid, hi) ELSE ISqrtIn(x, lo, mid)

ISqrt(x) == ISqrtIn(x, 0, 46341)

\* x = m * 2^k with m in [FP, 2 * FP), for finite x > 0: <<m, k>>.
RECURSIVE Normalise(_, _)
Normalise(m, k) ==
    IF m >= 2 * FP THEN Normalise(m \div 2, k + 1)
    ELSE IF m < FP THEN Normalise(m * 2, k - 1)
    ELSE <<m, k>>

\* Sum of t^(2j+1) / (2j+1) from the term pw = t^n on, with t2 = t * t.
RECURSIVE AtanhSeries(_, _, _)
AtanhSeries(pw, t2, n) ==
    IF pw = 0 THEN 0
    ELSE pw \div n + AtanhSeries((pw * t2) \div FP, t2, n + 2)

\* Natural logarithm of a finite fixed-point x > 0.
LnPos(x) ==
    LET mk == Normalise(x, 0)
        m  == mk[1]
        t  == ((m - FP) * FP) \div (m + FP)
    IN  mk[2] * LN2 + 2 * AtanhSeries(t, (t * t) \div FP, 1)

\* Sum of r^j / j! from the term tm = r^(n-1) / (n-1)! on, for 0 <= r < LN2.
RECURSIVE ExpSeries(_, _, _)
ExpSeries(tm, r, n) ==
    IF tm = 0 THEN 0
    ELSE tm + ExpSeries((tm * r) \div (n * FP), r, n + 1)

RECURSIVE Pow2(_)
Pow2(n) == IF n <= 0 THEN 1 ELSE 2 * Pow2(n - 1)

\* exp of a finite fixed-point x; 0 below exp(-12), which is under one unit.
ExpFin(x) ==
    IF x < -12 * FP THEN 0
    ELSE LET n == x \div LN2
             e == ExpSeries(FP, x - n * LN2, 1)
         IN  IF n >= 0 THEN e * Pow2(n) ELSE e \div Pow2(-n)

\* exp(x)
FExp(x) ==
    IF IsNaN(x) THEN NaN
    ELSE IF x = PosInf THEN PosInf
    ELSE IF x = NegInf THEN 0
    ELSE ExpFin(x)

\* log10(x): NaN below zero, -inf at zero.
FLog10(x) ==
    IF IsNaN(x) THEN NaN
    ELSE IF x = PosInf THEN PosInf
    ELSE IF x = NegInf THEN NaN
    ELSE IF x < 0 THEN NaN
    ELSE IF x = 0 THEN NegInf
    ELSE MulDiv(LnPos(x), FP, LN10)

\* pow(x, num / den) for a positive exponent that is not an integer:
\* NaN for a negative base, 0 at 0.
FPow(x, num, den) ==
    IF IsNaN(x) THEN NaN
    ELSE IF IsInf(x) THEN PosInf
    ELSE IF x < 0 THEN NaN
    ELSE IF x = 0 THEN 0
    ELSE ExpFin(MulDiv(LnPos(x), num, den))

\* ------------------------------------------------------------------- tables
\* PRESETS: yield in MT / FP, typicalHeight in metres (name and type omitted).
PRESETS == <<
    [yield |-> 150, isAirburst |-> TRUE, typicalHeight |-> 580],
    [yield |-> 210, isAirburst |-> TRUE, typicalHeight |-> 503],
    [yield |-> 5000, isAirburst |-> TRUE, typicalHeight |-> 450],
    [yield |-> 150000, isAirburst |-> TRUE, typicalHeight |-> 2000],
    [yield |-> 500000, isAirburst |-> TRUE, typicalHeight |-> 4000],
    [yield |-> 4750, isAirburst |-> TRUE, typicalHeight |-> 300],
    [yield |-> 3000, isAirburst |-> TRUE, typicalHeight |-> 300],
    [yield |-> 1000, isAirburst |-> TRUE, typicalHeight |-> 250],
    [yield |-> 3500, isAirburst |-> TRUE, typicalHeight |-> 300],
    [yield |-> 500, isAirburst |-> TRUE, typicalHeight |-> 200],
    [yield |-> 1500, isAirburst |-> TRUE, typicalHeight |-> 250],
    [yield |-> 12000, isAirburst |-> TRUE, typicalHeight |-> 300],
    [yield |-> 8000, isAirburst |-> TRUE, typicalHeight |-> 350],
    [yield |-> 7500, isAirburst |-> TRUE, typicalHeight |-> 300],
    [yield |-> 5500, isAirburst |-> TRUE, typicalHeight |-> 300],
    [yield |-> 1500, isAirburst |-> TRUE, typicalHeight |-> 250],
    [yield |-> 500, isAirburst |-> TRUE, typicalHeight |-> 200],
    [yield |-> 3000, isAirburst |-> TRUE, typicalHeight |-> 300],
    [yield |-> 5000, isAirburst |-> TRUE, typicalHeight |-> 300],
    [yield |-> 3500, isAirburst |-> TRUE, typicalHeight |-> 250],
    [yield |-> 2500, isAirburst |-> TRUE, typicalHeight |-> 250],
    [yield |-> 2500, isAirburst |-> TRUE, typicalHeight |-> 300],
    [yield |-> 1500, isAirburst |-> TRUE, typicalHeight |-> 200],
    [yield |-> 3000, isAirburst |-> TRUE, typicalHeight |-> 250],
    [yield |-> 1000, isAirburst |-> TRUE, typicalHeight |-> 250],
    [yield |-> 1500, isAirburst |-> TRUE, typicalHeight |-> 250],
    [yield |-> 3000, isAirburst |-> TRUE, typicalHeight |-> 200],
    [yield |-> 4000, isAirburst |-> TRUE, typicalHeight |-> 250],
    [yield |-> 2500, isAirburst |-> TRUE, typicalHeight |-> 300],
    [yield |-> 2000, isAirburst |-> TRUE, typicalHeight |-> 250],
    [yield |-> 2000, isAirburst |-> TRUE, typicalHeight |-> 250],
    [yield |-> 500, isAirburst |-> TRUE, typicalHeight |-> 200],
    [yield |-> 2000, isAirburst |-> TRUE, typicalHeight |-> 250],
    [yield |-> 1500, isAirburst |-> TRUE, typicalHeight |-> 250],
    [yield |-> 500, isAirburst |-> TRUE, typicalHeight |-> 200] >>

\* CITIES: densities in people per km^2, radius in metres.
CITIES == <<
    [density |-> 5023, radius |-> 9200, suburban_density |-> 2100],
    [density |-> 7767, radius |-> 15200, suburban_density |-> 2200],
    [density |-> 15842, radius |-> 5800, suburban_density |-> 3500],
    [density |-> 4722, radius |-> 10700, suburban_density |-> 1200],
    [density |-> 4147, radius |-> 16800, suburban_density |-> 1800],
    [density |-> 13043, radius |-> 7200, suburban_density |-> 3200],
    [density |-> 9210, radius |-> 8500, suburban_density |-> 1500],
    [density |-> 3428, radius |-> 12900, suburban_density |-> 1100],
    [density |-> 4444, radius |-> 7500, suburban_density |-> 1800],
    [density |-> 12174, radius |-> 6100, suburban_density |-> 2500],
    [density |-> 2283, radius |-> 6400, suburban_density |-> 800],
    [density |-> 2517, radius |-> 15500, suburban_density |-> 1200],
    [density |-> 3070, radius |-> 8200, suburban_density |-> 1400],
    [density |-> 3575, radius |-> 16300, suburban_density |-> 900],
    [density |-> 2187, radius |-> 5500, suburban_density |-> 700],
    [density |-> 29000, radius |-> 5600, suburban_density |-> 4200],
    [density |-> 5724, radius |-> 22500, suburban_density |-> 3500],
    [density |-> 5464, radius |-> 13800, suburban_density |-> 2200],
    [density |-> 7692, radius |-> 7600, suburban_density |-> 2800],
    [density |-> 4978, radius |-> 28100, suburban_density |-> 2000],
    [density |-> 4839, radius |-> 9900, suburban_density |-> 1900],
    [density |-> 1542, radius |-> 12000, suburban_density |-> 800],
    [density |-> 20952, radius |-> 5800, suburban_density |-> 5500],
    [density |-> 2621, radius |-> 12500, suburban_density |-> 1100],
    [density |-> 3345, radius |-> 20200, suburban_density |-> 1600],
    [density |-> 2642, radius |-> 12500, suburban_density |-> 900],
    [density |-> 5319, radius |-> 7700, suburban_density |-> 1700],
    [density |-> 4579, radius |-> 11500, suburban_density |-> 1600],
    [density |-> 3483, radius |-> 12800, suburban_density |-> 1400],
    [density |-> 1248, radius |-> 14200, suburban_density |-> 600],
    [density |-> 4886, radius |-> 5300, suburban_density |-> 2200] >>

\* ------------------------------------------------------------ model bounds
\* Weapon menu answers: -1, 0 .. MaxWeaponChoice, the last preset and
\* "Custom Input" (PRESETS.size() + 1).
MaxWeaponChoice == 3
\* Burst menu answers 0 .. MaxBurstChoice (1-7 are the menu, the rest invalid).
MaxBurstChoice == 8
\* City menu answers 0 .. MaxCityChoice (0 is invalid).
MaxCityChoice == 2

NumPresets == Len(PRESETS)
NumCities == Len(CITIES)

WeaponChoices == {-1} \cup (0 .. MaxWeaponChoice) \cup {NumPresets, NumPresets + 1}
BurstChoices == 0 .. MaxBurstChoice
CityChoices == 0 .. MaxCityChoice

\* Yields typed at "Enter yield (MT)": -1, 0, 0.0005 and 1 MT.
CustomYields == {-FP, 0, 5, FP, 50 * FP}
\* Answers to "Select detonation type".
DetonationTypes == {1, 2}
\* Heights typed at "Enter height of burst (meters)" of the custom weapon.
WeaponHeights == {-100, 500}
\* Heights typed at "Enter burst height (meters)" of the burst menu.
BurstHeights == {-50, 0, 100, 4000, 7000, 12000}
\* Wind speeds typed, km/h / FP: -5, 0, 0.1 and 3 km/h.
WindSpeeds == {-5 * FP, 0, 1000, 3 * FP}
\* What a read of PRESETS[choice - 1] outside the table can deliver.
GarbagePresets ==
    [yield : {-FP, 0, FP}, isAirburst : BOOLEAN, typicalHeight : {-100, 300}]

\* ------------------------------------------------------------------- state
VARIABLES
    pc,           \* position of main(): the next function to run
    yield,        \* NuclearEffectsCalculator::yield, MT / FP
    height,       \* NuclearEffectsCalculator::height, metres
    isAirburst,   \* NuclearEffectsCalculator::isAirburst
    windSpeed,    \* NuclearEffectsCalculator::windSpeed, km/h / FP
    selectedCity, \* NuclearEffectsCalculator::selectedCity
    effects,      \* main()'s WeaponEffects effects
    casualties,   \* displayResults()'s CasualtyEstimate casualties
    tierRadius,   \* calculateCasualties(): the sqrt(area / M_PI) it compares with
    presetRead,   \* setParameters(): the indices at which PRESETS was read
    burstInput,   \* setBurstParameters(): what it read from std::cin
    density       \* calculateDensityAtDistance(): the distance of a call and
                  \* the value it returned

vars == <<pc, yield, height, isAirburst, windSpeed, selectedCity, effects,
          casualties, tierRadius, presetRead, burstInput, density>>

NoLevels == [severe |-> 0, moderate |-> 0, light |-> 0,
             severeArea |-> 0, moderateArea |-> 0, lightArea |-> 0]
NoFallout == [maxDownwindDistance |-> 0, maxWidth |-> 0,
              dangerousZoneArea |-> 0, falloutAngle |-> 0]
NoEffects == [thermal |-> NoLevels, blast |-> NoLevels, radiation |-> NoLevels,
              fallout |-> NoFallout]
NoCasualties == [deaths |-> 0, severeInjuries |-> 0, lightInjuries |-> 0,
                 longTermDeaths1Year |-> 0, longTermDeaths5Year |-> 0,
                 longTermDeaths10Year |-> 0, longTermDeaths20Year |-> 0]
NoTiers == [severe |-> 0, moderate |-> 0, light |-> 0]
NoTierRadius == [blast |-> NoTiers, thermal |-> NoTiers, radiation |-> NoTiers,
                 maxRadius |-> 0]
NoCity == [density |-> 0, radius |-> 0, suburban_density |-> 0]
\* No call of calculateDensityAtDistance recorded.
NoDensity == [distance |-> -1, value |-> 0]

\* NuclearEffectsCalculator(): yield(0), height(0), isAirburst(false), windSpeed(0).
Init ==
    /\ pc = "setParameters"
    /\ yield = 0
    /\ height = 0
    /\ isAirburst = FALSE
    /\ windSpeed = 0
    /\ selectedCity = NoCity
    /\ effects = NoEffects
    /\ casualties = NoCasualties
    /\ tierRadius = NoTierRadius
    /\ presetRead = << >>
    /\ burstInput = << >>
    /\ density = NoDensity

\* ------------------------------------------------------- pure calculations
\* calculateArea(radius): M_PI * pow(radius / 1000.0, 2), as the coefficient
\* of pi in m^2.
calculateArea(radius) == FMulBy(radius, radius, 1)

\* calculateOptimalHeight() with the thermal and blast coefficients exchanged
\* (a variant C17 must tell apart).
calculateOptimalHeight_exchanged(y) ==
    LET yieldFactor == FPow(y, 1, 3)
    IN  [thermal  |-> FMulBy(180, yieldFactor, FP),
         blast    |-> FMulBy(220, yieldFactor, FP),
         combined |-> FMulBy(200, yieldFactor, FP)]

\* calculateOptimalHeight(), metres.
calculateOptimalHeight(y) ==
    LET yieldFactor == FPow(y, 1, 3)
    IN  [thermal  |-> FMulBy(220, yieldFactor, FP),
         blast    |-> FMulBy(180, yieldFactor, FP),
         combined |-> FMulBy(200, yieldFactor, FP)]

\* heightFactor without the floor of 0.3 (a variant C9 must tell apart).
heightFactor_unbounded(h) == FSub(FP, FDivTo(h, 10000, FP))

\* heightFactor of applyHeightEffects: std::max(0.3, 1.0 - height / 10000.0).
heightFactor(h) == FMax(3000, FSub(FP, FDivTo(h, 10000, FP)))

\* applyHeightEffects reducing the thermal radii as well (a variant C10 must
\* tell apart).
applyHeightEffects_thermal(e, h) ==
    LET f == heightFactor(h)
    IN  [e EXCEPT !.blast.severe = FMul(@, f),
                  !.blast.moderate = FMul(@, f),
                  !.blast.light = FMul(@, f),
                  !.thermal.severe = FMul(@, f),
                  !.thermal.moderate = FMul(@, f),
                  !.thermal.light = FMul(@, f),
                  !.radiation.severe = FMul(@, f),
                  !.radiation.moderate = FMul(@, f),
                  !.radiation.light = FMul(@, f)]

\* applyHeightEffects recomputing the areas of the radii it reduces (a variant
\* C23 must tell apart).
applyHeightEffects_recomputing(e, h) ==
    LET f == heightFactor(h)
    IN  [e EXCEPT !.blast.severe = FMul(@, f),
                  !.blast.moderate = FMul(@, f),
                  !.blast.light = FMul(@, f),
                  !.blast.severeArea = calculateArea(FMul(e.blast.severe, f)),
                  !.blast.moderateArea = calculateArea(FMul(e.blast.moderate, f)),
                  !.blast.lightArea = calculateArea(FMul(e.blast.light, f)),
                  !.radiation.severe = FMul(@, f),
                  !.radiation.moderate = FMul(@, f),
                  !.radiation.light = FMul(@, f),
                  !.radiation.severeArea = calculateArea(FMul(e.radiation.severe, f)),
                  !.radiation.moderateArea = calculateArea(FMul(e.radiation.moderate, f)),
                  !.radiation.lightArea = calculateArea(FMul(e.radiation.light, f))]

\* The six statements radius *= heightFactor of applyHeightEffects.
applyHeightEffects(e, h) ==
    LET f == heightFactor(h)
    IN  [e EXCEPT !.blast.severe = FMul(@, f),
                  !.blast.moderate = FMul(@, f),
                  !.blast.light = FMul(@, f),
                  !.radiation.severe = FMul(@, f),
                  !.radiation.moderate = FMul(@, f),
                  !.radiation.light = FMul(@, f)]

\* An EffectLevels initialiser with the severe and light radii exchanged (a
\* variant C2 must tell apart).
EffectLevels_exchanged(severe, moderate, light, scaling) ==
    [severe       |-> FMulBy(light, scaling, FP),
     moderate     |-> FMulBy(moderate, scaling, FP),
     light        |-> FMulBy(severe, scaling, FP),
     severeArea   |-> calculateArea(FMulBy(light, scaling, FP)),
     moderateArea |-> calculateArea(FMulBy(moderate, scaling, FP)),
     lightArea    |-> calculateArea(FMulBy(severe, scaling, FP))]

\* One EffectLevels initialiser of calculateEffects: three reference radii
\* times the scaling, and calculateArea of each.
EffectLevels(severe, moderate, light, scaling) ==
    [severe       |-> FMulBy(severe, scaling, FP),
     moderate     |-> FMulBy(moderate, scaling, FP),
     light        |-> FMulBy(light, scaling, FP),
     severeArea   |-> calculateArea(FMulBy(severe, scaling, FP)),
     moderateArea |-> calculateArea(FMulBy(moderate, scaling, FP)),
     lightArea    |-> calculateArea(FMulBy(light, scaling, FP))]

\* PhysicalConstants::GRAVITY, m/s^2 / FP.
GRAVITY == 98067
\* dangerousZoneArea is kept in units of 1/AREA km^2.
AREA == 100

\* calculateFallout(): the locals, in the order the code computes them.
\* (height == 0) ? 212.0 : 188.0
stabilizedCoefficient(h) == IF h = 0 THEN 212 ELSE 188

\* stabilizedHeight, metres.
stabilizedHeight(y, h) == FMulBy(stabilizedCoefficient(h), FPow(y, 3, 8), FP)

\* -height / (stabilizedHeight * 0.7)
particleExponent(y, h) == FNeg(FDiv(h, FMulBy(stabilizedHeight(y, h), 7, 10)))

\* isAirburst ? 0.3 * exp(-height / (stabilizedHeight * 0.7)) : 1.0
particleFraction(y, h, air) ==
    IF air THEN FMul(3000, FExp(particleExponent(y, h))) ELSE FP

\* exp() of a double is 0 only below about -745; above that the particle
\* fraction is positive however small.
EXP_UNDERFLOW == 745

\* particleFraction > 0 in the arithmetic of the code.
ParticlesRemain(y, h, air) ==
    \/ ~air
    \/ /\ IsFinite(particleExponent(y, h))
       /\ particleExponent(y, h) > -(EXP_UNDERFLOW * FP)

\* 0.6 + 0.2 * log10(yield)
activityFraction(y) == FAdd(6000, FMul(FLog10(y), 2000))

\* yield * particleFraction * activityFraction.  A product below zero stays
\* below zero when it is smaller than the unit 1 / FP: pow(effectiveYield, 0.4)
\* depends on its sign.
effectiveYield(y, h, air) ==
    IF /\ FMul(FMul(y, particleFraction(y, h, air)), activityFraction(y)) = 0
       /\ IsFinite(y) /\ IsFinite(activityFraction(y))
       /\ Sgn(y) * Sgn(activityFraction(y)) < 0
       /\ ParticlesRemain(y, h, air)
    THEN -1
    ELSE FMul(FMul(y, particleFraction(y, h, air)), activityFraction(y))

\* baseRadius / 1000.0, km / FP (baseRadius = 1000.0 * pow(effectiveYield, 0.4)).
baseRadiusKm(y, h, air) ==
    FDivTo(FMulBy(FPow(effectiveYield(y, h, air), 2, 5), 1000, 1), 1000, 1)

\* (1.0 - 0.2 * isAirburst)
airburstReduction(air) == IF air THEN 8000 ELSE FP

\* (height == 0) ? 1.0 : 0.3
falloutScale(h) == IF h = 0 THEN FP ELSE 3000

\* Product of two lengths in km / FP, in the unit of dangerousZoneArea.
AreaProduct(x, y) == FMulBy(x, y, FP * (FP \div AREA))

\* windSpeed * 3600.0 * (pow(effectiveYield, 0.4) / GRAVITY)
\*     * (1.0 + 0.15 * log10(yield)), km / FP.
windDriven(y, h, air, w) ==
    FMul(FMul(FMulBy(w, 3600, 1), FDiv(FPow(effectiveYield(y, h, air), 2, 5), GRAVITY)),
         FAdd(FP, FMul(FLog10(y), 1500)))

\* fallout.maxDownwindDistance of either branch, km / FP.
maxDownwindDistance(y, h, air, w) ==
    IF FLess(w, 1000)
    THEN baseRadiusKm(y, h, air)
    ELSE FMax(baseRadiusKm(y, h, air), windDriven(y, h, air, w))

\* calculateFallout() up to "Calculate danger zone area": the pattern before
\* the final scale.
falloutPattern(y, h, air, w) ==
    LET sh   == stabilizedHeight(y, h)
        pf   == particleFraction(y, h, air)
        base == baseRadiusKm(y, h, air)
        calm == FLess(w, 1000)
        down == maxDownwindDistance(y, h, air, w)
        wide == IF calm THEN base
                ELSE FMul(FMul(down, FAdd(1400, FMul(FLog10(y), 200))),
                          FPow(FDiv(sh, 1000), 1, 2))
        angl == IF calm THEN 360 * FP
                ELSE FMul(FMul(40 * FP, FExp(FNeg(FDiv(h, FMulBy(sh, 2, 1))))),
                          FSub(FP, FMul(FLog10(FMax(FP, w)), 1000)))
        zone == IF calm
                THEN FMul(AreaProduct(down, down), PI)
                ELSE FMul(FMul(AreaProduct(FMulBy(down, 5, 10), wide), pf),
                          airburstReduction(air))
    IN  [maxDownwindDistance |-> down,
         maxWidth            |-> wide,
         dangerousZoneArea   |-> zone,
         falloutAngle        |-> angl]

\* The final scale applied to every value of the pattern (a variant C18 must
\* tell apart).
ScaleZone_all(fallout, scale) ==
    [maxDownwindDistance |-> FMul(fallout.maxDownwindDistance, scale),
     maxWidth            |-> FMul(fallout.maxWidth, scale),
     dangerousZoneArea   |-> FMul(fallout.dangerousZoneArea, scale),
     falloutAngle        |-> FMul(fallout.falloutAngle, scale)]

\* fallout.dangerousZoneArea *= falloutScale;
ScaleZone(fallout, scale) ==
    [fallout EXCEPT !.dangerousZoneArea = FMul(@, scale)]

\* calculateFallout(): the FalloutData it returns.
calculateFallout(y, h, air, w) ==
    ScaleZone(falloutPattern(y, h, air, w), falloutScale(h))

\* The scaling laws of calculateEffects.
blastScaling(y) == FPow(y, 1, 3)
thermalScaling(y) == FPow(y, 2, 5)
radiationScaling(y) == FPow(y, 19, 100)

\* calculateEffects() up to "Apply height of burst effects": the three
\* EffectLevels from the scaling laws.
scaledEffects(y) ==
    [blast     |-> EffectLevels(2000, 3000, 4500, blastScaling(y)),
     thermal   |-> EffectLevels(1200, 1800, 2400, thermalScaling(y)),
     radiation |-> EffectLevels(800, 1200, 1600, radiationScaling(y)),
     fallout   |-> NoFallout]

\* if (height > 0) applyHeightEffects(effects, height);
heightApplied(e, h) == IF FGreater(h, 0) THEN applyHeightEffects(e, h) ELSE e

\* effects.fallout = calculateFallout();
WithFallout(e, fallout) == [e EXCEPT !.fallout = fallout]

\* calculateEffects(): the WeaponEffects it returns.
calculateEffects(y, h, air, w) ==
    WithFallout(heightApplied(scaledEffects(y), h), calculateFallout(y, h, air, w))

\* sqrt(area / M_PI) of calculateCasualties, km as whole metres.
SqrtAreaOverPi(area) ==
    IF IsNaN(area) \/ area = NegInf THEN NaN
    ELSE IF area = PosInf THEN PosInf
    ELSE IF area < 0 THEN NaN
    ELSE ISqrt(area)

\* The radii calculateCasualties derives from the areas of one EffectLevels.
TierRadii(levels) ==
    [severe   |-> SqrtAreaOverPi(levels.severeArea),
     moderate |-> SqrtAreaOverPi(levels.moderateArea),
     light    |-> SqrtAreaOverPi(levels.lightArea)]

\* maxRadius: std::max over the three light radii, in the order of the list.
MaxRadius(e) ==
    FMax(FMax(SqrtAreaOverPi(e.blast.lightArea), SqrtAreaOverPi(e.thermal.lightArea)),
         SqrtAreaOverPi(e.radiation.lightArea))

RINGS == 20

\* calculateDensityAtDistance(distance), people per km^2; the distance comes
\* in units of 1 / (2 * RINGS) metre.
\* The core branch without the decay (a variant C16 must tell apart).
coreDensityAt_flat(distance, cityRadius, cityDensity) == cityDensity

\* cityDensity * exp(-distance / cityRadius)
coreDensityAt(distance, cityRadius, cityDensity) ==
    FMul(cityDensity, FExp(FNeg(FDiv(distance, cityRadius))))

\* suburbanDensity * exp(-(distance - cityRadius) / (cityRadius * 0.5))
suburbanDensityAt(distance, cityRadius, suburbanDensity) ==
    FMul(suburbanDensity,
         FExp(FNeg(FDiv(FSub(distance, cityRadius), FMulBy(cityRadius, 5, 10)))))

\* selectedCity.radius in the unit of the distances.
cityRadiusOf(city) == 2 * RINGS * city.radius

calculateDensityAtDistance(distance, city) ==
    IF FLeq(distance, cityRadiusOf(city))
    THEN coreDensityAt(distance, cityRadiusOf(city), city.density)
    ELSE suburbanDensityAt(distance, cityRadiusOf(city), city.suburban_density)

\* innerRadius and outerRadius of ring i, in units of 1 / RINGS metre:
\* (i * maxRadius) / RINGS and ((i + 1) * maxRadius) / RINGS.
innerRadius(i, maxRadius) == FMulBy(maxRadius, i, 1)
outerRadius(i, maxRadius) == FMulBy(maxRadius, i + 1, 1)

\* avgRadius of ring i, in units of 1 / (2 * RINGS) metre:
\* (i * maxRadius / RINGS + (i + 1) * maxRadius / RINGS) / 2.
AvgRadius(i, maxRadius) == FMulBy(maxRadius, 2 * i + 1, 1)

\* avgRadius <= sqrt(area / M_PI)
Within(avgRadius, radius) == FLeq(avgRadius, FMulBy(radius, 2 * RINGS, 1))

\* ringArea as the whole disc of the outer radius (a variant C22 must tell
\* apart).
RingArea_disc(i, maxRadius) ==
    FMulBy(FMulBy(FMulBy(maxRadius, maxRadius, 1), (i + 1) * (i + 1), RINGS * RINGS),
           PI, 1000000)

\* ringArea of ring i, km^2 / FP:
\* M_PI * (outerRadius^2 - innerRadius^2) = M_PI * maxRadius^2 * (2i + 1) / RINGS^2.
RingArea(i, maxRadius) ==
    FMulBy(FMulBy(FMulBy(maxRadius, maxRadius, 1), 2 * i + 1, RINGS * RINGS), PI, 1000000)

\* ringArea * density of ring i, people.
RingPopulation(i, maxRadius, city) ==
    FMul(RingArea(i, maxRadius), calculateDensityAtDistance(AvgRadius(i, maxRadius), city))

\* The blast cascade with three independent tests (a variant C19 must tell
\* apart).
BlastTerm_independent(avgRadius, people, b) ==
    [deaths         |-> IF Within(avgRadius, b.severe) THEN 9 * people ELSE 0,
     severeInjuries |-> IF Within(avgRadius, b.moderate) THEN 5 * people ELSE 0,
     lightInjuries  |-> IF Within(avgRadius, b.light) THEN 3 * people ELSE 0]

\* The blast if / else if / else if of one ring, in tenths of a person:
\* the innermost tier that holds the ring midpoint decides the class.
BlastTerm(avgRadius, people, b) ==
    [deaths         |-> IF Within(avgRadius, b.severe) THEN 9 * people ELSE 0,
     severeInjuries |-> IF ~Within(avgRadius, b.severe) /\ Within(avgRadius, b.moderate)
                        THEN 5 * people ELSE 0,
     lightInjuries  |-> IF /\ ~Within(avgRadius, b.severe)
                           /\ ~Within(avgRadius, b.moderate)
                           /\ Within(avgRadius, b.light)
                        THEN 3 * people ELSE 0]

\* "Add thermal effects": the severe tier only, 70% mortality.
ThermalTerm(avgRadius, people, t) ==
    [deaths         |-> IF Within(avgRadius, t.severe) THEN 7 * people ELSE 0,
     severeInjuries |-> 0,
     lightInjuries  |-> 0]

\* The radiation test on the light radius (a variant C20 must tell apart).
RadiationTerm_light(avgRadius, people, r) ==
    [deaths         |-> 0,
     severeInjuries |-> IF Within(avgRadius, r.light) THEN 8 * people ELSE 0,
     lightInjuries  |-> 0]

\* "Add radiation effects": the severe tier only, 80% severe injuries.
RadiationTerm(avgRadius, people, r) ==
    [deaths         |-> 0,
     severeInjuries |-> IF Within(avgRadius, r.severe) THEN 8 * people ELSE 0,
     lightInjuries  |-> 0]

\* casualties.x += ... of one pass.
AddCasualties(sum, ring) ==
    [deaths         |-> sum.deaths + ring.deaths,
     severeInjuries |-> sum.severeInjuries + ring.severeInjuries,
     lightInjuries  |-> sum.lightInjuries + ring.lightInjuries]

\* The three categories of one ring with the thermal deaths left out where
\* the blast already counted the ring as deaths (a variant C21 must tell
\* apart).
RingTerm_deduplicated(avgRadius, people, b, t, r) ==
    AddCasualties(AddCasualties(BlastTerm(avgRadius, people, b),
                                IF Within(avgRadius, b.severe)
                                THEN [deaths |-> 0, severeInjuries |-> 0,
                                      lightInjuries |-> 0]
                                ELSE ThermalTerm(avgRadius, people, t)),
                  RadiationTerm(avgRadius, people, r))

\* The three categories of one ring, in tenths of a person.
RingTerm(avgRadius, people, b, t, r) ==
    AddCasualties(AddCasualties(BlastTerm(avgRadius, people, b),
                                ThermalTerm(avgRadius, people, t)),
                  RadiationTerm(avgRadius, people, r))

\* What pass i of the ring loop adds; maxRadius and the tier radii b, t, r are
\* the values computed before the loop.
RingCasualties(i, maxRadius, b, t, r, city) ==
    RingTerm(AvgRadius(i, maxRadius), RingPopulation(i, maxRadius, city), b, t, r)

\* The ring loop: passes 0 .. n - 1.
RECURSIVE RingSum(_, _, _, _, _, _)
RingSum(n, maxRadius, b, t, r, city) ==
    IF n = 0 THEN [deaths |-> 0, severeInjuries |-> 0, lightInjuries |-> 0]
    ELSE AddCasualties(RingSum(n - 1, maxRadius, b, t, r, city),
                       RingCasualties(n - 1, maxRadius, b, t, r, city))

\* totalExposed = casualties.severeInjuries + casualties.lightInjuries
TotalExposed(sum) == sum.severeInjuries + sum.lightInjuries

\* The long-term estimates with the fractions in the opposite order (a variant
\* C13 must tell apart).
WithLongTerm_reversed(sum) ==
    [deaths               |-> sum.deaths,
     severeInjuries       |-> sum.severeInjuries,
     lightInjuries        |-> sum.lightInjuries,
     longTermDeaths1Year  |-> 4 * TotalExposed(sum),
     longTermDeaths5Year  |-> 3 * TotalExposed(sum),
     longTermDeaths10Year |-> 2 * TotalExposed(sum),
     longTermDeaths20Year |-> 1 * TotalExposed(sum)]

\* The long-term estimates from the sums, in hundredths of a person:
\* totalExposed * 0.1, 0.2, 0.3 and 0.4.
WithLongTerm(sum) ==
    [deaths               |-> sum.deaths,
     severeInjuries       |-> sum.severeInjuries,
     lightInjuries        |-> sum.lightInjuries,
     longTermDeaths1Year  |-> 1 * TotalExposed(sum),
     longTermDeaths5Year  |-> 2 * TotalExposed(sum),
     longTermDeaths10Year |-> 3 * TotalExposed(sum),
     longTermDeaths20Year |-> 4 * TotalExposed(sum)]

\* calculateCasualties(effects): deaths and injuries in tenths of a person.
calculateCasualties(e, city) ==
    WithLongTerm(RingSum(RINGS, MaxRadius(e), TierRadii(e.blast),
                         TierRadii(e.thermal), TierRadii(e.radiation), city))

\* ----------------------------------------------------------------- actions
\* choice <= PRESETS.size(): the int is converted to size_t, so a negative
\* choice compares as a huge value and is not <= the size.
LeqSize(choice, size) == choice >= 0 /\ choice <= size

\* The weapon part of setParameters(), up to the call of setBurstParameters.
\* PRESETS[choice - 1] with choice = 0 reads outside the table: undefined
\* behaviour, modelled as any preset value or a crash.
setParameters ==
    /\ pc = "setParameters"
    /\ \E choice \in WeaponChoices :
          IF LeqSize(choice, NumPresets)
          THEN /\ presetRead' = Append(presetRead, choice - 1)
               /\ \/ /\ \E preset \in (IF choice - 1 \in 0 .. NumPresets - 1
                                       THEN {PRESETS[choice]} ELSE GarbagePresets) :
                           /\ yield' = preset.yield
                           /\ isAirburst' = preset.isAirburst
                           /\ height' = preset.typicalHeight
                     /\ pc' = "setBurstParameters"
                  \/ /\ choice - 1 \notin 0 .. NumPresets - 1
                     /\ pc' = "crashed"
                     /\ UNCHANGED <<yield, isAirburst, height>>
          ELSE /\ \E y \in CustomYields, type \in DetonationTypes :
                     /\ yield' = y
                     /\ isAirburst' = (type = 2)
                     /\ IF type = 2
                        THEN \E h \in WeaponHeights : height' = h
                        ELSE UNCHANGED height
               /\ pc' = "setBurstParameters"
               /\ UNCHANGED presetRead
    /\ UNCHANGED <<windSpeed, selectedCity, effects, casualties, tierRadius,
                   burstInput, density>>

\* Case 7 without the check of the height (a variant C8 must tell apart).
ValidateHeight_unchecked(h) == h

\* "if (height < 0) height = 0;" of case 7.
ValidateHeight(h) == IF FLess(h, 0) THEN 0 ELSE h

\* The height the switch of setBurstParameters assigns.
BurstHeight(choice, oh, typed) ==
    CASE choice = 1 -> 0
      [] choice = 2 -> oh.combined
      [] choice = 3 -> FMulBy(oh.combined, 7, 10)
      [] choice = 4 -> FMulBy(oh.combined, 15, 10)
      [] choice = 5 -> oh.thermal
      [] choice = 6 -> oh.blast
      [] choice = 7 -> ValidateHeight(typed)
      [] OTHER -> oh.combined

\* isAirburst = (choice > 1);
BurstFlag(choice) == choice > 1

\* setBurstParameters with a switch whose default case assigns nothing, so an
\* unlisted selection keeps the height set before (a variant C25 must tell
\* apart).
setBurstParameters_keeping ==
    /\ pc = "setBurstParameters"
    /\ \E choice \in BurstChoices :
       \E typed \in (IF choice = 7 THEN BurstHeights ELSE {0}) :
          /\ isAirburst' = BurstFlag(choice)
          /\ height' = IF choice \in 1 .. 7
                        THEN BurstHeight(choice, calculateOptimalHeight(yield), typed)
                        ELSE height
          /\ burstInput' = IF choice = 7 THEN <<choice, typed>> ELSE <<choice>>
    /\ pc' = "selectCity"
    /\ UNCHANGED <<yield, windSpeed, selectedCity, effects, casualties, tierRadius,
                   presetRead, density>>

setBurstParameters ==
    /\ pc = "setBurstParameters"
    /\ \E choice \in BurstChoices :
       \E typed \in (IF choice = 7 THEN BurstHeights ELSE {0}) :
          /\ isAirburst' = BurstFlag(choice)
          /\ height' = BurstHeight(choice, calculateOptimalHeight(yield), typed)
          /\ burstInput' = IF choice = 7 THEN <<choice, typed>> ELSE <<choice>>
    /\ pc' = "selectCity"
    /\ UNCHANGED <<yield, windSpeed, selectedCity, effects, casualties, tierRadius,
                   presetRead, density>>

selectCity ==
    /\ pc = "selectCity"
    /\ \E choice \in CityChoices :
          selectedCity' = IF choice > 0 /\ choice <= NumCities
                          THEN CITIES[choice] ELSE CITIES[1]
    /\ pc' = "setWindParameters"
    /\ UNCHANGED <<yield, height, isAirburst, windSpeed, effects, casualties,
                   tierRadius, presetRead, burstInput, density>>

\* std::cin >> windSpeed;
StoredWind(typed) == typed

setWindParameters ==
    /\ pc = "setWindParameters"
    /\ \E typed \in WindSpeeds : windSpeed' = StoredWind(typed)
    /\ pc' = "calculateEffects"
    /\ UNCHANGED <<yield, height, isAirburst, selectedCity, effects, casualties,
                   tierRadius, presetRead, burstInput, density>>

\* The calculation normalising the wind it reads back into the field (a
\* variant C15 must tell apart).
CalculateEffects_clamping ==
    /\ pc = "calculateEffects"
    /\ windSpeed' = FMax(0, windSpeed)
    /\ effects' = calculateEffects(yield, height, isAirburst, windSpeed)
    /\ pc' = "displayResults"
    /\ UNCHANGED <<yield, height, isAirburst, selectedCity, casualties,
                   tierRadius, presetRead, burstInput, density>>

\* WeaponEffects effects = calculator.calculateEffects();
CalculateEffects ==
    /\ pc = "calculateEffects"
    /\ effects' = calculateEffects(yield, height, isAirburst, windSpeed)
    /\ pc' = "displayResults"
    /\ UNCHANGED <<yield, height, isAirburst, windSpeed, selectedCity, casualties,
                   tierRadius, presetRead, burstInput, density>>

\* calculator.displayResults(effects): calculateCasualties and the printing.
displayResults ==
    /\ pc = "displayResults"
    /\ casualties' = calculateCasualties(effects, selectedCity)
    /\ tierRadius' = [blast     |-> TierRadii(effects.blast),
                      thermal   |-> TierRadii(effects.thermal),
                      radiation |-> TierRadii(effects.radiation),
                      maxRadius |-> MaxRadius(effects)]
    /\ pc' = "done"
    /\ UNCHANGED <<yield, height, isAirburst, windSpeed, selectedCity, effects,
                   presetRead, burstInput, density>>

\* ---------------------------------------- calculateDensityAtDistance alone
\* Cities the density function is applied to: densities 0, 10000 and
\* 10000 * exp(-1.0) people per km^2, radii 1, 5 and 9.2 km.
DensityValues == {0, FMul(10000, FExp(-FP)), 10000}
RadiusValues == {1000, 5000, 9200}
DensityCities ==
    [density : DensityValues, radius : RadiusValues, suburban_density : DensityValues]

\* Distances of the calls: the centre, half the radius, the radius and twice
\* the radius.
DensityDistances(city) ==
    {0, cityRadiusOf(city) \div 2, cityRadiusOf(city), 2 * cityRadiusOf(city)}

InitDensity ==
    /\ pc = "calculateDensityAtDistance"
    /\ selectedCity \in DensityCities
    /\ yield = 0
    /\ height = 0
    /\ isAirburst = FALSE
    /\ windSpeed = 0
    /\ effects = NoEffects
    /\ casualties = NoCasualties
    /\ tierRadius = NoTierRadius
    /\ presetRead = << >>
    /\ burstInput = << >>
    /\ density = NoDensity

\* One call of calculateDensityAtDistance(distance).
callDensityAtDistance ==
    /\ pc = "calculateDensityAtDistance"
    /\ \E distance \in DensityDistances(selectedCity) :
          density' = [distance |-> distance,
                      value    |-> calculateDensityAtDistance(distance, selectedCity)]
    /\ UNCHANGED <<pc, yield, height, isAirburst, windSpeed, selectedCity, effects,
                   casualties, tierRadius, presetRead, burstInput>>

NextDensity == callDensityAtDistance

SpecDensity == InitDensity /\ [][NextDensity]_vars

Next ==
    \/ setParameters
    \/ setBurstParameters
    \/ selectCity
    \/ setWindParameters
    \/ CalculateEffects
    \/ displayResults

Spec == Init /\ [][Next]_vars

\* ------------------------------------------------------------------ claims
Categories == {"blast", "thermal", "radiation"}

\* setParameters() has returned: the calculation begins or has run.
ParametersSet == pc \in {"calculateEffects", "displayResults", "done"}

\* calculateEffects() has returned: effects holds its result.
Calculated == pc \in {"displayResults", "done"}

AreaOfRadius(l) ==
    /\ l.severeArea = calculateArea(l.severe)
    /\ l.moderateArea = calculateArea(l.moderate)
    /\ l.lightArea = calculateArea(l.light)

\* C1: in every result of calculateEffects (yield > 0), each stored area of
\* blast, thermal and radiation is pi * (stored radius / 1000)^2, also after the
\* height attenuation.  The code does not recompute the areas: violated.
C1_AreaMatchesRadius ==
    (Calculated /\ FGreater(yield, 0)) =>
        \A c \in Categories : AreaOfRadius(effects[c])

Ordered(l) == FLeq(l.severe, l.moderate) /\ FLeq(l.moderate, l.light)

\* C2: for yield > 0 the radii of every category satisfy
\* severe <= moderate <= light, in the result of calculateEffects (after the
\* height attenuation) and in the levels of the scaling laws (before it).
C2_TierOrdering ==
    (Calculated /\ FGreater(yield, 0)) =>
        LET scaled == scaledEffects(yield)
        IN  \A c \in Categories : Ordered(effects[c]) /\ Ordered(scaled[c])

\* A result for yield > 0 whose blast radii were attenuated and are strictly
\* ordered.
C2_Witness ==
    /\ Calculated /\ FGreater(yield, 0) /\ FGreater(height, 0)
    /\ effects.blast.light < scaledEffects(yield).blast.light
    /\ effects.blast.severe < effects.blast.moderate
    /\ effects.blast.moderate < effects.blast.light

\* C3: with height = 0 every burst-type decision of calculateFallout takes the
\* ground-burst branch: coefficient 212, particleFraction 1.0, no 20%
\* reduction, scale 1.0.  particleFraction and the reduction test isAirburst,
\* which the burst menu sets for a custom height of 0: violated.
C3_GroundBranchAtZeroHeight ==
    (ParametersSet /\ FGreater(yield, 0) /\ height = 0) =>
        /\ stabilizedCoefficient(height) = 212
        /\ particleFraction(yield, height, isAirburst) = FP
        /\ airburstReduction(isAirburst) = FP
        /\ falloutScale(height) = FP

\* C4: when the calculation begins (yield > 0), isAirburst is true exactly
\* when height > 0.  setBurstParameters sets isAirburst from the menu choice
\* alone: violated.
C4_AirburstIffHeight ==
    (pc = "calculateEffects" /\ FGreater(yield, 0)) =>
        (isAirburst <=> FGreater(height, 0))

\* C5: the radii calculateCasualties compares ring midpoints with (and its
\* maxRadius) are the radii carried in the effects result.  The areas they
\* are derived from are those before the height attenuation: violated.
C5_CasualtyRadiiAreResultRadii ==
    (pc = "done" /\ FGreater(yield, 0)) =>
        /\ \A c \in Categories :
              /\ tierRadius[c].severe = effects[c].severe
              /\ tierRadius[c].moderate = effects[c].moderate
              /\ tierRadius[c].light = effects[c].light
        /\ tierRadius.maxRadius =
              FMax(FMax(effects.blast.light, effects.thermal.light),
                   effects.radiation.light)

\* C6: a yield <= 0 typed at the custom-yield prompt is rejected before
\* anything is computed: no calculation runs with it.  The code never checks
\* the yield: violated.
C6_NonPositiveYieldRejected ==
    (Calculated /\ presetRead = << >>) => FGreater(yield, 0)

\* C7: a negative wind speed is clamped to 0: the stored windSpeed is >= 0
\* and the fallout is that of the clamped wind (stated for yield > 0).  setWindParameters stores what
\* was typed: violated.
C7_NegativeWindClamped ==
    FGreater(yield, 0) =>
        /\ ParametersSet => FLeq(0, windSpeed)
        /\ Calculated =>
              effects.fallout =
                  calculateFallout(yield, height, isAirburst, FMax(0, windSpeed))

\* C8: for yield > 0 and any menu inputs, the height stored when
\* calculateEffects runs is >= 0.
C8_HeightNonNegative ==
    (ParametersSet /\ FGreater(yield, 0)) => FLeq(0, height)

\* A negative height was typed at the burst menu and the calculation begins
\* with height 0.
C8_Witness ==
    /\ pc = "calculateEffects" /\ FGreater(yield, 0)
    /\ Len(burstInput) = 2 /\ burstInput[2] < 0
    /\ height = 0

AppliedFactor == IF FGreater(height, 0) THEN heightFactor(height) ELSE FP

ScaledBy(l, base, f) ==
    /\ l.severe = FMul(base.severe, f)
    /\ l.moderate = FMul(base.moderate, f)
    /\ l.light = FMul(base.light, f)

\* C10: the result carries the blast and the radiation radii of the scaling
\* laws times one common factor, and the thermal radii and areas exactly as
\* the yield^0.4 law gives them, for every height.
C10_OnlyBlastAndRadiationScaled ==
    (Calculated /\ FGreater(yield, 0)) =>
        LET scaled == scaledEffects(yield)
            factor == AppliedFactor
        IN  /\ ScaledBy(effects.blast, scaled.blast, factor)
            /\ ScaledBy(effects.radiation, scaled.radiation, factor)
            /\ effects.thermal = EffectLevels(1200, 1800, 2400, FPow(yield, 2, 5))

\* A result above the ground: blast and radiation reduced, thermal not.
C10_Witness ==
    /\ Calculated /\ FGreater(yield, 0) /\ FGreater(height, 0)
    /\ AppliedFactor < FP
    /\ effects.blast.severe < scaledEffects(yield).blast.severe
    /\ effects.radiation.severe < scaledEffects(yield).radiation.severe
    /\ effects.thermal.severe = scaledEffects(yield).thermal.severe
    /\ effects.thermal.severe > 0

\* C11: for every yield > 0 and every height, a wind below 0.1 km/h gives a
\* circular pattern: falloutAngle = 360 and
\* maxWidth = maxDownwindDistance = baseRadius / 1000.
C11_CalmWindCircular ==
    (Calculated /\ FGreater(yield, 0) /\ FLess(windSpeed, 1000)) =>
        /\ FEq(effects.fallout.falloutAngle, 360 * FP)
        /\ FEq(effects.fallout.maxWidth, effects.fallout.maxDownwindDistance)
        /\ FEq(effects.fallout.maxDownwindDistance,
               baseRadiusKm(yield, height, isAirburst))

\* Wind speeds the downwind distance of a state is compared at: 0.1, 3 and
\* 20 km/h.
ComparedWinds == {1000, 3 * FP, 20 * FP}

\* C12: with yield, height and burst type fixed, for wind speeds w1 <= w2 at
\* or above 0.1 km/h maxDownwindDistance(w1) <= maxDownwindDistance(w2), and
\* maxDownwindDistance is never below baseRadius / 1000.
C12_DownwindMonotoneInWind ==
    (Calculated /\ FGreater(yield, 0) /\ FLeq(1000, windSpeed)) =>
        /\ ~FLess(effects.fallout.maxDownwindDistance,
                  baseRadiusKm(yield, height, isAirburst))
        /\ \A w2 \in ComparedWinds :
              FLeq(windSpeed, w2) =>
                  FLeq(effects.fallout.maxDownwindDistance,
                       maxDownwindDistance(yield, height, isAirburst, w2))

\* The areas of one EffectLevels are non-negative numbers.
AreasNonNegative(l) ==
    FLeq(0, l.severeArea) /\ FLeq(0, l.moderateArea) /\ FLeq(0, l.lightArea)

\* A city with non-negative densities and a positive radius.
ValidCity(city) ==
    FLeq(0, city.density) /\ FLeq(0, city.suburban_density) /\ FGreater(city.radius, 0)

\* C13: for effects with non-negative areas and a city with non-negative
\* densities and a positive radius, calculateCasualties returns deaths,
\* severeInjuries, lightInjuries and the four long-term fields >= 0, the
\* long-term fields being 10%, 20%, 30% and 40% of severeInjuries +
\* lightInjuries (hundredths of a person against tenths), hence non-decreasing.
C13_CasualtiesNonNegative ==
    (/\ pc = "done"
     /\ \A c \in Categories : AreasNonNegative(effects[c])
     /\ ValidCity(selectedCity)) =>
        /\ casualties.deaths >= 0
        /\ casualties.severeInjuries >= 0
        /\ casualties.lightInjuries >= 0
        /\ casualties.longTermDeaths1Year >= 0
        /\ casualties.longTermDeaths1Year <= casualties.longTermDeaths5Year
        /\ casualties.longTermDeaths5Year <= casualties.longTermDeaths10Year
        /\ casualties.longTermDeaths10Year <= casualties.longTermDeaths20Year
        /\ casualties.longTermDeaths1Year =
              1 * (casualties.severeInjuries + casualties.lightInjuries)
        /\ casualties.longTermDeaths5Year =
              2 * (casualties.severeInjuries + casualties.lightInjuries)
        /\ casualties.longTermDeaths10Year =
              3 * (casualties.severeInjuries + casualties.lightInjuries)
        /\ casualties.longTermDeaths20Year =
              4 * (casualties.severeInjuries + casualties.lightInjuries)

C13_Witness ==
    /\ pc = "done"
    /\ \A c \in Categories : AreasNonNegative(effects[c])
    /\ ValidCity(selectedCity)
    /\ casualties.deaths > 0
    /\ casualties.severeInjuries > 0
    /\ casualties.lightInjuries > 0
    /\ casualties.longTermDeaths1Year > 0
    /\ casualties.longTermDeaths1Year < casualties.longTermDeaths20Year

\* The rings of a finished run: midpoint and population of ring i, from the
\* radii the casualty loop derived.
Rings == 0 .. RINGS - 1
RingMidpoint(i) == AvgRadius(i, tierRadius.maxRadius)
RingPeople(i) == RingPopulation(i, tierRadius.maxRadius, selectedCity)

\* The tier of a category that decides for a ring, by the blast pattern.
InModerateOnly(i, t) ==
    ~Within(RingMidpoint(i), t.severe) /\ Within(RingMidpoint(i), t.moderate)
InLightOnly(i, t) ==
    /\ ~Within(RingMidpoint(i), t.severe)
    /\ ~Within(RingMidpoint(i), t.moderate)
    /\ Within(RingMidpoint(i), t.light)

\* C14: the thermal moderate and light tiers mirror the blast pattern: a
\* populated ring outside the thermal severe radius but inside the thermal
\* moderate (light) radius receives a thermal severe-injury (light-injury)
\* contribution.
C14_ThermalTiersMirrorBlast ==
    (pc = "done" /\ FGreater(yield, 0)) =>
        \A i \in Rings :
            /\ (InModerateOnly(i, tierRadius.thermal) /\ RingPeople(i) > 0) =>
                  ThermalTerm(RingMidpoint(i), RingPeople(i),
                              tierRadius.thermal).severeInjuries > 0
            /\ (InLightOnly(i, tierRadius.thermal) /\ RingPeople(i) > 0) =>
                  ThermalTerm(RingMidpoint(i), RingPeople(i),
                              tierRadius.thermal).lightInjuries > 0

\* The calculator's parameters.
parameters == <<yield, height, isAirburst, windSpeed, selectedCity>>

AtCoreRadius == density.distance = cityRadiusOf(selectedCity)

\* The limit of the suburban branch as the distance falls to cityRadius: its
\* value at the radius.
SuburbanLimit(city) ==
    suburbanDensityAt(cityRadiusOf(city), cityRadiusOf(city), city.suburban_density)

OptimalHeights == calculateOptimalHeight(yield)

\* C17: calculateOptimalHeight depends on the yield only and returns
\* thermal = 220 * f, blast = 180 * f, combined = 200 * f with
\* f = yield^(1/3): for yield > 0, 0 < blast <= combined <= thermal in the
\* ratio 180 : 200 : 220 (to the rounding of whole metres), whatever the
\* height, wind and burst flag; the menu choices 2, 5 and 6 store them.
C17_OptimalHeightsFromYield ==
    (ParametersSet /\ FGreater(yield, 0)) =>
        LET oh == OptimalHeights
            f == FPow(yield, 1, 3)
        IN  /\ oh.thermal = FMulBy(220, f, FP)
            /\ oh.blast = FMulBy(180, f, FP)
            /\ oh.combined = FMulBy(200, f, FP)
            /\ 0 < oh.blast
            /\ oh.blast <= oh.combined
            /\ oh.combined <= oh.thermal
            /\ Abs(220 * oh.blast - 180 * oh.thermal) < 220
            /\ Abs(220 * oh.combined - 200 * oh.thermal) < 220
            /\ burstInput = <<2>> => height = FMulBy(200, f, FP)
            /\ burstInput = <<5>> => height = FMulBy(220, f, FP)
            /\ burstInput = <<6>> => height = FMulBy(180, f, FP)

C17_Witness ==
    /\ pc = "calculateEffects"
    /\ FGreater(yield, 0)
    /\ burstInput = <<5>>
    /\ isAirburst
    /\ FGreater(windSpeed, 0)
    /\ height = OptimalHeights.thermal
    /\ OptimalHeights.blast < OptimalHeights.combined
    /\ OptimalHeights.combined < height

\* The fallout pattern of the state's parameters before the final scale.
UnscaledFallout == falloutPattern(yield, height, isAirburst, windSpeed)

RingBlast(i) == BlastTerm(RingMidpoint(i), RingPeople(i), tierRadius.blast)

\* The number of casualty classes a blast contribution adds casualties to.
BlastClasses(blast) ==
    Cardinality({class \in {"deaths", "severeInjuries", "lightInjuries"} :
                    blast[class] # 0})

\* C19: for blast each ring contributes to at most one class, chosen by the
\* innermost blast tier that contains the ring midpoint: 90% of the ring
\* population to deaths within the severe radius, else 50% to severeInjuries
\* within the moderate radius, else 30% to lightInjuries within the light
\* radius, else nothing (amounts in tenths of a person).
C19_BlastOneClassPerRing ==
    (pc = "done" /\ FGreater(yield, 0)) =>
        \A i \in Rings :
            LET people == RingPeople(i)
                blast == BlastTerm(RingMidpoint(i), people, tierRadius.blast)
            IN  /\ BlastClasses(blast) <= 1
                /\ Within(RingMidpoint(i), tierRadius.blast.severe) =>
                      blast.deaths = 9 * people
                /\ InModerateOnly(i, tierRadius.blast) =>
                      blast.severeInjuries = 5 * people
                /\ InLightOnly(i, tierRadius.blast) =>
                      blast.lightInjuries = 3 * people
                /\ ~Within(RingMidpoint(i), tierRadius.blast.light) =>
                      blast = [deaths |-> 0, severeInjuries |-> 0,
                               lightInjuries |-> 0]

C19_Witness ==
    /\ pc = "done"
    /\ FGreater(yield, 0)
    /\ \E i \in Rings : RingBlast(i).deaths > 0
    /\ \E i \in Rings : RingBlast(i).severeInjuries > 0
    /\ \E i \in Rings : RingBlast(i).lightInjuries > 0
    /\ \E i \in Rings :
          /\ Within(RingMidpoint(i), tierRadius.blast.severe)
          /\ RingBlast(i).severeInjuries = 0
          /\ RingPeople(i) > 0

\* The radiation contribution of ring i of a finished run.
RingRadiation(i) ==
    RadiationTerm(RingMidpoint(i), RingPeople(i), tierRadius.radiation)

RingAll(i) ==
    RingTerm(RingMidpoint(i), RingPeople(i),
             tierRadius.blast, tierRadius.thermal, tierRadius.radiation)

\* C21: the contributions of blast, thermal and radiation to a ring are
\* computed independently and summed without deduplication: what a ring adds
\* to each class is the sum of what the categories add, and a ring whose
\* midpoint is inside both the blast severe and the thermal severe radius
\* adds 0.9 + 0.7 = 1.6 times its population to deaths (tenths of a person).
C21_CategoriesSummedIndependently ==
    (pc = "done" /\ FGreater(yield, 0)) =>
        \A i \in Rings :
            LET people == RingPeople(i)
                blast == BlastTerm(RingMidpoint(i), people, tierRadius.blast)
                thermal == ThermalTerm(RingMidpoint(i), people, tierRadius.thermal)
                radiation == RadiationTerm(RingMidpoint(i), people,
                                           tierRadius.radiation)
                all == RingTerm(RingMidpoint(i), people, tierRadius.blast,
                                tierRadius.thermal, tierRadius.radiation)
            IN  /\ all.deaths = blast.deaths + thermal.deaths
                /\ all.severeInjuries =
                      blast.severeInjuries + radiation.severeInjuries
                /\ all.lightInjuries = blast.lightInjuries
                /\ (/\ Within(RingMidpoint(i), tierRadius.blast.severe)
                    /\ Within(RingMidpoint(i), tierRadius.thermal.severe)) =>
                      all.deaths = 16 * people
                /\ (/\ ~Within(RingMidpoint(i), tierRadius.blast.light)
                    /\ Within(RingMidpoint(i), tierRadius.thermal.severe)) =>
                      all.deaths = 7 * people

C21_Witness ==
    /\ pc = "done"
    /\ FGreater(yield, 0)
    /\ \E i \in Rings :
          /\ Within(RingMidpoint(i), tierRadius.blast.severe)
          /\ Within(RingMidpoint(i), tierRadius.thermal.severe)
          /\ RingPeople(i) > 0
          /\ RingAll(i).deaths = 16 * RingPeople(i)
    /\ \E i \in Rings :
          /\ InModerateOnly(i, tierRadius.blast)
          /\ Within(RingMidpoint(i), tierRadius.radiation.severe)
          /\ RingPeople(i) > 0
          /\ RingAll(i).severeInjuries = 13 * RingPeople(i)

\* M_PI * (outerRadius^2 - innerRadius^2) of ring i from its two radii,
\* km^2 / FP.
AreaBetween(i, maxRadius) ==
    FMulBy(FSub(FMulBy(outerRadius(i, maxRadius), outerRadius(i, maxRadius),
                       RINGS * RINGS),
                FMulBy(innerRadius(i, maxRadius), innerRadius(i, maxRadius),
                       RINGS * RINGS)),
           PI, 1000000)

\* The areas of rings 0 .. n - 1 added up.
RECURSIVE RingAreaSum(_, _)
RingAreaSum(n, maxRadius) ==
    IF n = 0 THEN 0 ELSE RingAreaSum(n - 1, maxRadius) + RingArea(n - 1, maxRadius)

\* C22: the loop uses N = 20 rings with innerRadius = i * maxRadius / N and
\* outerRadius = (i + 1) * maxRadius / N for i = 0 .. N - 1: the rings are
\* contiguous, start at 0 and end at maxRadius, every midpoint is strictly
\* inside maxRadius, each ring area is pi * (outer^2 - inner^2) and the areas
\* sum to pi * maxRadius^2 (to the rounding of one unit per ring).
C22_RingsPartitionTheDisc ==
    (pc = "done" /\ FGreater(yield, 0)) =>
        /\ Cardinality(Rings) = 20
        /\ innerRadius(0, tierRadius.maxRadius) = 0
        /\ outerRadius(RINGS - 1, tierRadius.maxRadius) = RINGS * tierRadius.maxRadius
        /\ \A i \in Rings :
              /\ i < RINGS - 1 =>
                    outerRadius(i, tierRadius.maxRadius) =
                        innerRadius(i + 1, tierRadius.maxRadius)
              /\ innerRadius(i, tierRadius.maxRadius) <
                    outerRadius(i, tierRadius.maxRadius)
              /\ RingMidpoint(i) =
                    innerRadius(i, tierRadius.maxRadius)
                        + outerRadius(i, tierRadius.maxRadius)
              /\ RingMidpoint(i) < 2 * RINGS * tierRadius.maxRadius
              /\ Abs(RingArea(i, tierRadius.maxRadius)
                        - AreaBetween(i, tierRadius.maxRadius)) <= 1
        /\ Abs(RingAreaSum(RINGS, tierRadius.maxRadius)
                  - FMulBy(FMulBy(tierRadius.maxRadius, tierRadius.maxRadius, 1),
                           PI, 1000000)) <= RINGS

C22_Witness ==
    /\ pc = "done"
    /\ FGreater(yield, 0)
    /\ tierRadius.maxRadius > 1000
    /\ RingArea(0, tierRadius.maxRadius) > 0
    /\ RingArea(0, tierRadius.maxRadius) < RingArea(RINGS - 1, tierRadius.maxRadius)
    /\ RingAreaSum(RINGS, tierRadius.maxRadius) > 0
    /\ casualties.deaths > 0

\* C23: with the yield and the city fixed, the casualty estimate is the same
\* for every height of burst, burst type and wind speed: it is the estimate
\* of the effects of the yield alone in the selected city.
C23_CasualtiesFromYieldAndCity ==
    (pc = "done") =>
        casualties = calculateCasualties(scaledEffects(yield), selectedCity)

C23_Witness ==
    /\ pc = "done"
    /\ FGreater(yield, 0)
    /\ FGreater(height, 0)
    /\ isAirburst
    /\ FGreater(windSpeed, 0)
    /\ effects.blast.light < scaledEffects(yield).blast.light
    /\ casualties.deaths > 0
    /\ casualties = calculateCasualties(scaledEffects(yield), selectedCity)

\* C24: whatever integer is entered at the weapon prompt, setParameters
\* reads PRESETS only at an index in 0 .. size - 1: a selection outside
\* 1 .. size (zero, negative or too large) never indexes the table.
C24_PresetIndexInRange ==
    \A k \in 1 .. Len(presetRead) : presetRead[k] \in 0 .. NumPresets - 1

\* What setBurstParameters read: the selection and, for selection 7, the
\* height typed.
burstChoice == burstInput[1]
typedHeight == IF Len(burstInput) = 2 THEN burstInput[2] ELSE 0

\* C25: once setBurstParameters has run, height and isAirburst are determined
\* by the yield, the burst-type selection and (selection 7) the height typed
\* there alone; the height and burst flag that the weapon step set from the
\* preset or the custom answers are overwritten before calculateEffects.
C25_BurstMenuDeterminesHeight ==
    (pc \in {"selectCity", "setWindParameters"} \/ ParametersSet) =>
        /\ isAirburst = BurstFlag(burstChoice)
        /\ height = BurstHeight(burstChoice, calculateOptimalHeight(yield),
                                typedHeight)

C25_Witness ==
    /\ pc = "calculateEffects"
    /\ presetRead = <<0>>
    /\ yield = PRESETS[1].yield
    /\ isAirburst # PRESETS[1].isAirburst
    /\ height # PRESETS[1].typicalHeight
    /\ isAirburst = BurstFlag(burstChoice)
    /\ height = BurstHeight(burstChoice, calculateOptimalHeight(yield), typedHeight)

====
